---- MODULE Spec2Model ----
(***************************************************************************)
(* A model of the SemanticRAG indexing pipeline: the embedding cache       *)
(* (src/mockembedder.go), the upload handler (src/handlers.go), the        *)
(* batched vector-store upsert and the vector-store client                 *)
(* (src/unnamed/part_001), the embedding backends (src/unnamed/part_004)   *)
(* and the chunker (src/main.go).                                          *)
(*                                                                         *)
(* Strings are sequences of one-character strings.  A cache file is a      *)
(* sequence of JSON tokens, so that a file can be truncated, or overlaid   *)
(* by another writer, between any two tokens.                              *)
(***************************************************************************)
EXTENDS Integers, Sequences, FiniteSets, TLC

VARIABLES
    \* ---- cache key (makeEmbedCacheKey) ----
    kq,         \* the key computation under study: its two inputs and two keys
    \* ---- file system under tmp/ ----
    dir,        \* path -> inode, or NoFile
    data,       \* inode -> content, a sequence of tokens
    \* ---- embedWithCache, one process per request ----
    pc,         \* request -> position in embedWithCache
    req,        \* request -> its arguments and EMBED_CACHE_MODE
    loc,        \* request -> its local variables
    hist,       \* request -> what the request did (calls, reads, writes)
    last,       \* what the last completed call persisted, if it did
    \* ---- uploadHandler / UpsertChunksToChroma ----
    up,         \* the indexing request in progress
    collection, \* the package-level collection handle (src/main.go:125)
    store,      \* the add calls the vector store has received, in order
    \* ---- Embedder.Embed (src/unnamed/part_004) ----
    em,         \* the Embed call in progress and the responses it received
    \* ---- simpleChunkDocument (src/main.go) ----
    ch,         \* the chunker call: its arguments and its result
    \* ---- chromaClient.getOrCreateCollection (src/unnamed/part_001) ----
    cc,         \* the client's calls and the collections of the store
    \* ---- promptHandler (src/handlers.go) ----
    chat,       \* the chat request in progress
    \* ---- the process ----
    srv,        \* whether the process runs, its environment, its answer client
    \* ---- chromaClient.add (src/unnamed/part_001) ----
    ad          \* the add call in progress and what the store received

vars == <<kq, dir, data, pc, req, loc, hist, last, up, collection, store, em, ch, cc,
         chat, srv, ad>>

(***************************************************************************)
(* Bounds of the model.                                                    *)
(***************************************************************************)
NumReq == 2          \* concurrent embedWithCache requests
MaxChunkParam == 11  \* chunkSize arguments range over -1..MaxChunkParam
MaxExtra == 2        \* passages beyond one upsert batch
MaxChunks == 1       \* passages of one embedWithCache request

(***************************************************************************)
(* makeEmbedCacheKey (src/mockembedder.go:23-26)                           *)
(***************************************************************************)
DigitChar(d) ==
    CASE d = 0 -> "0" [] d = 1 -> "1" [] d = 2 -> "2" [] d = 3 -> "3"
      [] d = 4 -> "4" [] d = 5 -> "5" [] d = 6 -> "6" [] d = 7 -> "7"
      [] d = 8 -> "8" [] d = 9 -> "9"

RECURSIVE Digits(_)
Digits(n) == IF n < 10 THEN <<DigitChar(n)>>
             ELSE Digits(n \div 10) \o <<DigitChar(n % 10)>>

\* fmt's %d: decimal, a leading "-" for a negative number
FmtInt(n) == IF n < 0 THEN <<"-">> \o Digits(0 - n) ELSE Digits(n)

\* The document contents of the model.
Contents == {"c0", "c1", "c2"}

\* hex.EncodeToString(sha256.Sum256(content)): a fixed-length hex string,
\* taken to be collision-free: one distinct digest per content.
Sha256Hex(content) ==
    CASE content = "c0" -> <<"0", "a">>
      [] content = "c1" -> <<"1", "0">>
      [] content = "c2" -> <<"a", "1">>

\* A key that leaves the model name out.
makeEmbedCacheKey_NoModel(fileName, content, chunkSize, model) ==
    fileName \o <<"|", "sha256:">> \o Sha256Hex(content)
             \o <<"|", "chunk:">> \o FmtInt(chunkSize)

\* fmt.Sprintf("%s|sha256:%s|chunk:%d|model:%s", ...), the literal pieces
\* "sha256:", "chunk:" and "model:" each one token of the string
makeEmbedCacheKey(fileName, content, chunkSize, model) ==
    fileName \o <<"|", "sha256:">> \o Sha256Hex(content)
             \o <<"|", "chunk:">> \o FmtInt(chunkSize)
             \o <<"|", "model:">> \o model

\* File and model names: arbitrary strings, which may hold the separators.
FileNames == { <<"a">>, <<"a", "1">>, <<"a", "|", "model:", "m">> }
ModelNames == { <<"m">>, <<"m", "1">>, <<"m", "|", "model:", "m">> }
ChunkSizes == (0 - 1)..MaxChunkParam

KeyInputs == [fileName : FileNames, content : Contents,
              chunkSize : ChunkSizes, model : ModelNames]

KeyOf(in) == makeEmbedCacheKey(in.fileName, in.content, in.chunkSize, in.model)

NoKey == [st |-> "idle"]

\* One of the four parameters of `in` replaced by another value.
ChangedOne(in) ==
    { [in EXCEPT !.fileName = f] : f \in FileNames \ {in.fileName} }
    \cup { [in EXCEPT !.content = c] : c \in Contents \ {in.content} }
    \cup { [in EXCEPT !.chunkSize = n] : n \in ChunkSizes \ {in.chunkSize} }
    \cup { [in EXCEPT !.model = m] : m \in ModelNames \ {in.model} }

\* The caller computes the key of a request.
ComputeKey ==
    /\ kq.st = "input"
    /\ kq' = [kq EXCEPT !.st = "one", !.k1 = KeyOf(kq.a)]
    /\ UNCHANGED <<dir, data, pc, req, loc, hist, last, up, collection, store, em, ch, cc,
                   chat, srv, ad>>

\* The caller computes the key of a request that differs in one parameter.
ComputeChangedKey ==
    /\ kq.st = "one"
    /\ \E b \in ChangedOne(kq.a) :
          kq' = [kq EXCEPT !.st = "two", !.b = b, !.k2 = KeyOf(b)]
    /\ UNCHANGED <<dir, data, pc, req, loc, hist, last, up, collection, store, em, ch, cc,
                   chat, srv, ad>>

(***************************************************************************)
(* The cache file format: json.MarshalIndent / json.Unmarshal of           *)
(* embedCacheFile (src/mockembedder.go:15-20)                              *)
(***************************************************************************)
Tok(t, v) == [t |-> t, v |-> v]

\* A Go map[string][]float32: nil, or a map from passage ordinal to vector.
NilMap == [nil |-> TRUE, m |-> <<>>]
MapOf(f) == [nil |-> FALSE, m |-> f]

RECURSIVE SortedIds(_)
SortedIds(S) ==
    IF S = {} THEN <<>>
    ELSE LET lo == CHOOSE x \in S : \A y \in S : x <= y
         IN  <<lo>> \o SortedIds(S \ {lo})

\* An encoder that writes an empty map as null, as it writes a nil one.
MarshalEmb_EmptyAsNull(e) ==
    IF e.nil \/ DOMAIN e.m = {} THEN <<Tok("embnull", 0)>>
    ELSE LET ids == SortedIds(DOMAIN e.m)
         IN  <<Tok("embopen", 0)>>
             \o [i \in 1..Len(ids) |-> Tok("pair", <<ids[i], e.m[ids[i]]>>)]
             \o <<Tok("embclose", 0)>>

\* encoding/json writes a nil map as null and a map as an object, keys sorted
MarshalEmb(e) ==
    IF e.nil THEN <<Tok("embnull", 0)>>
    ELSE LET ids == SortedIds(DOMAIN e.m)
         IN  <<Tok("embopen", 0)>>
             \o [i \in 1..Len(ids) |-> Tok("pair", <<ids[i], e.m[ids[i]]>>)]
             \o <<Tok("embclose", 0)>>

Marshal(cf) ==
    <<Tok("lbrace", 0), Tok("version", cf.Version), Tok("key", cf.Key),
      Tok("model", cf.Model)>> \o MarshalEmb(cf.Embeddings) \o <<Tok("rbrace", 0)>>

ZeroCacheFile == [Version |-> 0, Key |-> <<>>, Model |-> <<>>, Embeddings |-> NilMap]

Positions(b, kinds) == {i \in 1..Len(b) : b[i].t \in kinds}
MaxOf(S) == CHOOSE x \in S : \A y \in S : y <= x
MinOf(S) == CHOOSE x \in S : \A y \in S : x <= y

\* Whether the bytes are one JSON object: braces at both ends only, and the
\* embeddings object, when there is one, opened, filled with pairs and closed.
WellFormed(b) ==
    /\ Len(b) >= 2
    /\ b[1].t = "lbrace"
    /\ b[Len(b)].t = "rbrace"
    /\ \A i \in 2..(Len(b) - 1) : b[i].t \notin {"lbrace", "rbrace", "zero"}
    /\ LET E == Positions(b, {"embopen", "pair", "embclose"})
       IN  \/ E = {}
           \/ /\ E = MinOf(E)..MaxOf(E)
              /\ MinOf(E) < MaxOf(E)
              /\ b[MinOf(E)].t = "embopen"
              /\ b[MaxOf(E)].t = "embclose"
              /\ \A i \in (MinOf(E) + 1)..(MaxOf(E) - 1) : b[i].t = "pair"

\* The value of a field: its last occurrence, the zero value when absent.
FieldOf(b, kind, zero) ==
    IF Positions(b, {kind}) = {} THEN zero ELSE b[MaxOf(Positions(b, {kind}))].v

EmbOf(b) ==
    LET P == Positions(b, {"pair"})
    IN  IF Positions(b, {"embopen"}) = {} THEN NilMap
        ELSE MapOf([id \in {b[i].v[1] : i \in P} |->
                      b[MaxOf({i \in P : b[i].v[1] = id})].v[2]])

Unmarshal(b) ==
    IF WellFormed(b)
    THEN [err |-> FALSE,
          cf |-> [Version |-> FieldOf(b, "version", 0),
                  Key |-> FieldOf(b, "key", <<>>),
                  Model |-> FieldOf(b, "model", <<>>),
                  Embeddings |-> EmbOf(b)]]
    ELSE [err |-> TRUE, cf |-> ZeroCacheFile]

(***************************************************************************)
(* The file system: the two paths the cache uses.                          *)
(***************************************************************************)
CachePath == "cache"   \* tmp/embeddings_cache.json
TmpPath == "tmp"        \* tmp/embeddings_cache.json.tmp
Paths == {CachePath, TmpPath}

Reqs == 1..NumReq
NoFile == 0 - 1
\* Two paths and one open descriptor per request: at most NumReq + 2 files.
Inodes == 0..(NumReq + 1)

\* What a reader of the cache path finds.
FileView(d, dt, path) ==
    IF d[path] = NoFile THEN [exists |-> FALSE, b |-> <<>>]
    ELSE [exists |-> TRUE, b |-> dt[d[path]]]

\* loadEmbeddingsFromFile (src/mockembedder.go:28-45); ioErr is a read error
\* other than "not exist".  cfNil tells a nil *embedCacheFile.
loadEmbeddingsFromFile(d, dt, path, ioErr) ==
    LET f == FileView(d, dt, path)
        u == Unmarshal(f.b)
    IN  IF ioErr
        THEN [emb |-> NilMap, cf |-> ZeroCacheFile, cfNil |-> TRUE, ok |-> FALSE, err |-> TRUE]
        ELSE IF ~f.exists
        THEN [emb |-> NilMap, cf |-> ZeroCacheFile, cfNil |-> TRUE, ok |-> FALSE, err |-> FALSE]
        ELSE IF u.err
        THEN [emb |-> NilMap, cf |-> ZeroCacheFile, cfNil |-> TRUE, ok |-> FALSE, err |-> TRUE]
        ELSE IF u.cf.Embeddings.nil
        THEN [emb |-> NilMap, cf |-> u.cf, cfNil |-> FALSE, ok |-> FALSE, err |-> FALSE]
        ELSE [emb |-> u.cf.Embeddings, cf |-> u.cf, cfNil |-> FALSE, ok |-> TRUE, err |-> FALSE]

(***************************************************************************)
(* embedWithCache (src/mockembedder.go:103-141), getEmbeddingsCached       *)
(* (64-95) and saveEmbeddingsToFileAtomic (47-61), one step per call that  *)
(* reaches the file system or the embedding backend.                       *)
(***************************************************************************)
\* Values of EMBED_CACHE_MODE; "" is the unset variable.
EnvModes == {"", "off", "load", "auto"}
IsAuto(mode) == mode \notin {"off", "load"}

CacheInputs == { [fileName |-> <<"a">>, content |-> c, chunkSize |-> 2, model |-> <<"m">>] :
                 c \in {"c0", "c1"} }
ChunkIds(n) == 0..(n - 1)
Vecs == {1, 2}

\* What Embedder.Embed may return for n passages: an error, or one vector per id.
EmbedResults(n) ==
    {[ok |-> FALSE, out |-> <<>>]}
    \cup {[ok |-> TRUE, out |-> f] : f \in [ChunkIds(n) -> Vecs]}

LocIdle == [key |-> <<>>, out |-> <<>>, buf |-> <<>>, fd |-> NoFile, off |-> 0]
ReqIdle == [mode |-> "none", in |-> CHOOSE i \in CacheInputs : TRUE, n |-> 0]
Pending == [ok |-> FALSE, emb |-> NilMap, err |-> "pending"]
Ok(e) == [ok |-> TRUE, emb |-> e, err |-> ""]
Err(msg) == [ok |-> FALSE, emb |-> NilMap, err |-> msg]
NoLast == [persisted |-> FALSE, in |-> ReqIdle.in, emb |-> NilMap]
NoRes == [ok |-> FALSE, out |-> <<>>]
HistIdle == [calls |-> 0, reads |-> 0, wrote |-> FALSE, load |-> "none", res |-> NoRes,
             before |-> [exists |-> FALSE, b |-> <<>>], prev |-> NoLast,
             saveTried |-> FALSE, saveOk |-> FALSE, ret |-> Pending]

\* A switch that sends every mode to the cache file first.
FirstStep_AlwaysLoad(mode) == "load"

\* switch mode, lines 120-137: "off" goes straight to the backend, the other
\* modes read the cache file first.
FirstStep(mode) == IF mode = "off" THEN "embed" ELSE "load"

\* A test that takes no stored entry for a hit.
CacheHit_Never(l, key) == FALSE

\* getEmbeddingsCached line 76: the cache hit
CacheHit(l, key) == l.ok /\ ~l.cfNil /\ l.cf.Key = key

\* A check that accepts an entry stored under any key.
LoadModeHit_AnyKey(l, key) == l.ok /\ ~l.cfNil

\* embedWithCache line 131, negated: what mode load accepts
LoadModeHit(l, key) == ~(~l.ok \/ l.cfNil \/ l.cf.Key # key)

\* An entry saved with the model name in place of the key.
NewCacheFile_KeyIsModel(key, model, out) ==
    [Version |-> 1, Key |-> model, Model |-> model, Embeddings |-> MapOf(out)]

\* getEmbeddingsCached lines 88-93: the entry that is saved
NewCacheFile(key, model, out) ==
    [Version |-> 1, Key |-> key, Model |-> model, Embeddings |-> MapOf(out)]

\* A save whose error fails the request.
AfterSave_Fails(out, saveErr) == IF saveErr THEN Err("save-failed") ELSE Ok(MapOf(out))

\* getEmbeddingsCached lines 88 and 94: the error of the save is dropped
AfterSave(out, saveErr) == Ok(MapOf(out))

\* A save that writes the cache path in place.
TmpOf_InPlace(path) == path

\* saveEmbeddingsToFileAtomic line 51: tmp := path + ".tmp"
TmpOf(path) == TmpPath

\* Inodes still reachable: named by a path, or open in a request that is writing.
Live(d, p, l) == {d[x] : x \in Paths} \cup {l[r].fd : r \in {q \in Reqs : p[q] = "write"}}
\* The file system frees an inode nothing refers to.
Collect(d, dt, p, l) == [i \in Inodes |-> IF i \in Live(d, p, l) THEN dt[i] ELSE <<>>]
FreeInode(d, p, l) == MinOf(Inodes \ Live(d, p, l))

\* A write of `chunk` at offset `off`: the file grows as needed, a gap reads as zeros.
Overlay(content, off, chunk) ==
    LET n == IF Len(content) > off + Len(chunk) THEN Len(content) ELSE off + Len(chunk)
    IN  [i \in 1..n |->
           IF i > off /\ i <= off + Len(chunk) THEN chunk[i - off]
           ELSE IF i <= Len(content) THEN content[i]
           ELSE Tok("zero", 0)]

\* What a completed call leaves for the next one to find: the input and the
\* embeddings it computed and persisted, when it did both.
LastOf(rq, h, ret) ==
    IF IsAuto(rq.mode) /\ h.calls = 1 /\ h.saveOk
    THEN [persisted |-> TRUE, in |-> rq.in, emb |-> ret.emb]
    ELSE NoLast

\* The request returns `ret`; its locals and descriptors are gone.
Return(r, ret, h, d, dt) ==
    /\ pc' = [pc EXCEPT ![r] = "done"]
    /\ loc' = [loc EXCEPT ![r] = LocIdle]
    /\ hist' = [hist EXCEPT ![r] = [h EXCEPT !.ret = ret]]
    /\ last' = LastOf(req[r], h, ret)
    /\ dir' = d
    /\ data' = Collect(d, dt, [pc EXCEPT ![r] = "done"], loc)

\* embedWithCache lines 112-121: read the mode, compute the key, branch.
Begin(r, mode, in, n) ==
    /\ pc[r] \in {"idle", "done"}
    /\ req' = [req EXCEPT ![r] = [mode |-> mode, in |-> in, n |-> n]]
    /\ loc' = [loc EXCEPT ![r] = [LocIdle EXCEPT !.key = KeyOf(in)]]
    /\ hist' = [hist EXCEPT ![r] = [HistIdle EXCEPT !.before = FileView(dir, data, CachePath),
                                                    !.prev = last]]
    /\ pc' = [pc EXCEPT ![r] = FirstStep(mode)]
    /\ UNCHANGED <<kq, dir, data, last, up, collection, store, em, ch, cc,
                   chat, srv, ad>>

\* The read of the cache file: line 127 (load) or line 72 (auto).
Load(r, ioErr) ==
    /\ pc[r] = "load"
    /\ LET l == loadEmbeddingsFromFile(dir, data, CachePath, ioErr)
           hit == IF req[r].mode = "load" THEN LoadModeHit(l, loc[r].key)
                  ELSE CacheHit(l, loc[r].key)
           outcome == IF l.err THEN "err"
                      ELSE IF hit THEN "hit"
                      ELSE IF l.cfNil THEN "miss"
                      ELSE IF ~l.ok THEN "null" ELSE "mismatch"
           h == [hist[r] EXCEPT !.reads = 1, !.load = outcome]
       IN  IF req[r].mode = "load"
           THEN IF l.err THEN Return(r, Err("load-failed"), h, dir, data)
                ELSE IF ~hit THEN Return(r, Err("no-match"), h, dir, data)
                ELSE Return(r, Ok(l.emb), h, dir, data)
           ELSE IF l.err THEN Return(r, Err("read-error"), h, dir, data)
                ELSE IF hit THEN Return(r, Ok(l.emb), h, dir, data)
                ELSE /\ pc' = [pc EXCEPT ![r] = "embed"]
                     /\ hist' = [hist EXCEPT ![r] = h]
                     /\ UNCHANGED <<dir, data, loc, last>>
    /\ UNCHANGED <<kq, req, up, collection, store, em, ch, cc,
                   chat, srv, ad>>

\* embedder.Embed: line 123 (off) or line 82 through embedFn (auto).
Embed(r, res) ==
    /\ pc[r] = "embed"
    /\ res \in EmbedResults(req[r].n)
    /\ LET h == [hist[r] EXCEPT !.calls = @ + 1, !.res = res]
       IN  IF ~res.ok THEN Return(r, Err("embed-failed"), h, dir, data)
           ELSE IF req[r].mode = "off" THEN Return(r, Ok(MapOf(res.out)), h, dir, data)
           ELSE /\ pc' = [pc EXCEPT ![r] = "mkdir"]
                /\ loc' = [loc EXCEPT ![r].out = res.out,
                                      ![r].buf = Marshal(NewCacheFile(loc[r].key,
                                                                      req[r].in.model, res.out))]
                /\ hist' = [hist EXCEPT ![r] = [h EXCEPT !.saveTried = TRUE]]
                /\ UNCHANGED <<dir, data, last>>
    /\ UNCHANGED <<kq, req, up, collection, store, em, ch, cc,
                   chat, srv, ad>>

\* saveEmbeddingsToFileAtomic line 48: os.MkdirAll.  The error of the save is
\* dropped at line 88, and line 94 returns the embeddings.
Mkdir(r, fail) ==
    /\ pc[r] = "mkdir"
    /\ LET h == [hist[r] EXCEPT !.wrote = TRUE]
       IN  IF fail THEN Return(r, AfterSave(loc[r].out, TRUE), h, dir, data)
           ELSE /\ pc' = [pc EXCEPT ![r] = "open"]
                /\ hist' = [hist EXCEPT ![r] = h]
                /\ UNCHANGED <<dir, data, loc, last>>
    /\ UNCHANGED <<kq, req, up, collection, store, em, ch, cc,
                   chat, srv, ad>>

\* line 57, os.WriteFile: open tmp with O_WRONLY|O_CREATE|O_TRUNC.
Open(r, fail) ==
    /\ pc[r] = "open"
    /\ LET tmp == TmpOf(CachePath)
           ino == IF dir[tmp] = NoFile THEN FreeInode(dir, pc, loc) ELSE dir[tmp]
       IN  IF fail THEN Return(r, AfterSave(loc[r].out, TRUE), hist[r], dir, data)
           ELSE /\ pc' = [pc EXCEPT ![r] = "write"]
                /\ dir' = [dir EXCEPT ![tmp] = ino]
                /\ data' = [data EXCEPT ![ino] = <<>>]
                /\ loc' = [loc EXCEPT ![r].fd = ino, ![r].off = 0]
                /\ UNCHANGED <<hist, last>>
    /\ UNCHANGED <<kq, req, up, collection, store, em, ch, cc,
                   chat, srv, ad>>

\* line 57, os.WriteFile: one write(2) of k tokens at the descriptor's offset,
\* then the close when all is written.
Write(r, k, fail) ==
    /\ pc[r] = "write"
    /\ k \in 1..(Len(loc[r].buf) - loc[r].off)
    /\ LET fd == loc[r].fd
           chunk == SubSeq(loc[r].buf, loc[r].off + 1, loc[r].off + k)
           dt == [data EXCEPT ![fd] = Overlay(data[fd], loc[r].off, chunk)]
           whole == loc[r].off + k = Len(loc[r].buf)
           p == [pc EXCEPT ![r] = IF whole THEN "rename" ELSE "write"]
       IN  IF fail THEN Return(r, AfterSave(loc[r].out, TRUE), hist[r], dir, data)
           ELSE /\ pc' = p
                /\ loc' = [loc EXCEPT ![r].off = @ + k]
                /\ dir' = dir
                /\ data' = Collect(dir, dt, p, loc)
                /\ UNCHANGED <<hist, last>>
    /\ UNCHANGED <<kq, req, up, collection, store, em, ch, cc,
                   chat, srv, ad>>

\* line 60: os.Rename(tmp, path), which replaces path atomically.
Rename(r, fail) ==
    /\ pc[r] = "rename"
    /\ LET tmp == TmpOf(CachePath)
           \* renaming a path to itself changes nothing
           d == IF tmp = CachePath THEN dir
                ELSE [dir EXCEPT ![CachePath] = dir[tmp], ![tmp] = NoFile]
       IN  IF fail \/ dir[tmp] = NoFile
           THEN Return(r, AfterSave(loc[r].out, TRUE), hist[r], dir, data)
           ELSE Return(r, AfterSave(loc[r].out, FALSE), [hist[r] EXCEPT !.saveOk = TRUE], d, data)
    /\ UNCHANGED <<kq, req, up, collection, store, em, ch, cc,
                   chat, srv, ad>>

\* The process dies while request r is inside embedWithCache.
Crash(r) ==
    /\ pc[r] \notin {"idle", "done", "crashed"}
    /\ pc' = [pc EXCEPT ![r] = "crashed"]
    /\ loc' = [loc EXCEPT ![r] = LocIdle]
    /\ data' = Collect(dir, data, [pc EXCEPT ![r] = "crashed"], loc)
    /\ UNCHANGED <<kq, dir, req, hist, last, up, collection, store, em, ch, cc,
                   chat, srv, ad>>

(***************************************************************************)
(* Indexing one document: uploadHandler (src/handlers.go:18-106) and       *)
(* UpsertChunksToChroma (src/unnamed/part_001:19-54).  Passage i of the    *)
(* document has id <document>-i, here its ordinal i.                       *)
(***************************************************************************)
batch == 64   \* const batch = 64, the upsert batch size

MaxN == batch + MaxExtra
TextOf(i) == i + 100      \* the text of passage i
VecOf(i) == i + 200       \* the vector the backend returns for passage i

\* The ids an embedding result may lack: none, one, or all of them.
MissingSets(n) == {{}} \cup {{i} : i \in ChunkIds(n)} \cup {ChunkIds(n)}
EmbedMap(n, missing) == [i \in ChunkIds(n) \ missing |-> VecOf(i)]

NoUpload == [fileName |-> <<>>, content |-> "", chunkSize |-> 0, model |-> <<>>]
UpIdle == [path |-> "none", pc |-> "idle", n |-> 0, embeds |-> <<>>, i |-> 0,
           ids |-> <<>>, ret |-> [status |-> "pending", id |-> 0 - 1],
           in |-> NoUpload,                    \* the uploaded file
           calls |-> 0,                        \* calls of embedder.Embed that reach the backend
           col0 |-> "none"]                    \* the shared handle when the request began
Resp(status) == [status |-> status, id |-> 0 - 1]
MissingEmbedding(id) == [status |-> "missing", id |-> id]

MinInt(a, b) == IF a < b THEN a ELSE b
Range(lo, hi) == [k \in 1..(hi - lo) |-> lo + k - 1]   \* chunks[lo:hi]

\* The first passage of chunks[lo:hi] without an embedding, hi when there is none.
FirstMissing(embeds, lo, hi) ==
    LET M == {i \in lo..(hi - 1) : i \notin DOMAIN embeds}
    IN  IF M = {} THEN hi ELSE MinOf(M)

\* One add request: the aligned arrays built from the passages in `part`.
AddCall(part, embeds, withMetas) ==
    [ids |-> part,
     docs |-> [k \in 1..Len(part) |-> TextOf(part[k])],
     embs |-> [k \in 1..Len(part) |-> embeds[part[k]]],
     metas |-> IF withMetas THEN [k \in 1..Len(part) |-> [doc_id |-> part[k]]] ELSE <<>>]

\* ---- uploadHandler ----
\* lines 19-25: read the file and chunk it into n passages.
UploadBegin(in, n) ==
    /\ srv.alive
    /\ up.pc = "idle"
    /\ up' = [UpIdle EXCEPT !.path = "handler", !.pc = "embed", !.n = n, !.in = in,
                            !.col0 = collection]
    /\ UNCHANGED <<kq, dir, data, pc, req, loc, hist, last, collection, store, em, ch, cc,
                   chat, srv, ad>>

\* Whether one Embed of n passages sends to the backend: not for no passage
\* (src/unnamed/part_004:268-335).
BackendCalls(n) == IF n > 0 THEN 1 ELSE 0

\* lines 29-41: NewEmbedderFromEnv, then embedder.Embed on the provider itself;
\* either may fail.
UploadEmbed(envOk, ok, missing) ==
    /\ srv.alive
    /\ up.path = "handler" /\ up.pc = "embed"
    /\ missing \in MissingSets(up.n)
    /\ up' = IF ~envOk THEN [up EXCEPT !.pc = "done", !.ret = Resp("no-embedder")]
             ELSE IF ok
             THEN [up EXCEPT !.pc = "assemble", !.embeds = EmbedMap(up.n, missing),
                             !.calls = @ + BackendCalls(up.n)]
             ELSE [up EXCEPT !.pc = "done", !.ret = Resp("embed-failed"),
                             !.calls = @ + BackendCalls(up.n)]
    /\ UNCHANGED <<kq, dir, data, pc, req, loc, hist, last, collection, store, em, ch, cc,
                   chat, srv, ad>>

\* lines 51-72: the aligned slices, in passage order; a passage without an
\* embedding ends the request.
UploadAssemble ==
    /\ srv.alive
    /\ up.path = "handler" /\ up.pc = "assemble"
    /\ LET m == FirstMissing(up.embeds, 0, up.n)
       IN  up' = IF m < up.n
                 THEN [up EXCEPT !.pc = "done", !.ret = MissingEmbedding(m)]
                 ELSE [up EXCEPT !.pc = "getcol", !.ids = Range(0, up.n)]
    /\ UNCHANGED <<kq, dir, data, pc, req, loc, hist, last, collection, store, em, ch, cc,
                   chat, srv, ad>>

\* lines 78-84: the handle is assigned whatever GetOrCreateCollection returns;
\* its error is overwritten by line 86.
UploadGetCollection(ok) ==
    /\ srv.alive
    /\ up.path = "handler" /\ up.pc = "getcol"
    /\ collection' = IF ok THEN "col1" ELSE "nil"
    /\ up' = [up EXCEPT !.pc = "add"]
    /\ UNCHANGED <<kq, dir, data, pc, req, loc, hist, last, store, em, ch, cc,
                   chat, srv, ad>>

\* lines 86-95: one Add of all passages; a nil handle panics.
UploadAdd(ok) ==
    /\ srv.alive
    /\ up.path = "handler" /\ up.pc = "add"
    /\ IF collection = "nil"
       THEN /\ up' = [up EXCEPT !.pc = "done", !.ret = Resp("panic")]
            /\ store' = store
       ELSE IF ~ok
       THEN /\ up' = [up EXCEPT !.pc = "done", !.ret = Resp("add-failed")]
            /\ store' = store
       ELSE /\ up' = [up EXCEPT !.pc = "count"]
            /\ store' = Append(store, AddCall(up.ids, up.embeds, TRUE))
    /\ UNCHANGED <<kq, dir, data, pc, req, loc, hist, last, collection, em, ch, cc,
                   chat, srv, ad>>

\* lines 97-105: Count; its failure ends the process (log.Fatalf).
UploadCount(ok) ==
    /\ srv.alive
    /\ up.path = "handler" /\ up.pc = "count"
    /\ up' = [up EXCEPT !.pc = "done", !.ret = Resp(IF ok THEN "ok" ELSE "fatal")]
    /\ srv' = [srv EXCEPT !.alive = ok]
    /\ UNCHANGED <<kq, dir, data, pc, req, loc, hist, last, collection, store, em, ch, cc,
                   chat, ad>>

\* ---- UpsertChunksToChroma ----
\* lines 19-27: nothing to do for no chunks; else get or create the collection.
UpsertBegin(n, missing, ok) ==
    /\ up.pc = "idle"
    /\ missing \in MissingSets(n)
    /\ up' = IF n = 0 THEN [UpIdle EXCEPT !.path = "upsert", !.pc = "done", !.ret = Resp("ok")]
             ELSE IF ~ok
             THEN [UpIdle EXCEPT !.path = "upsert", !.pc = "done", !.n = n,
                                 !.embeds = EmbedMap(n, missing), !.ret = Resp("getcol-failed")]
             ELSE [UpIdle EXCEPT !.path = "upsert", !.pc = "batch", !.n = n,
                                 !.embeds = EmbedMap(n, missing)]
    /\ UNCHANGED <<kq, dir, data, pc, req, loc, hist, last, collection, store, em, ch, cc,
                   chat, srv, ad>>

\* lines 30-52, one turn of the loop: build chunks[i:j], then add it.
UpsertBatch(ok) ==
    /\ up.path = "upsert" /\ up.pc = "batch"
    /\ LET i == up.i
           j == MinInt(i + batch, up.n)
           m == FirstMissing(up.embeds, i, j)
       IN  IF m < j
           THEN /\ up' = [up EXCEPT !.pc = "done", !.ret = MissingEmbedding(m)]
                /\ store' = store
           ELSE IF ~ok
           THEN /\ up' = [up EXCEPT !.pc = "done", !.ret = Resp("add-failed")]
                /\ store' = store
           ELSE /\ up' = IF j < up.n THEN [up EXCEPT !.i = j]
                         ELSE [up EXCEPT !.i = j, !.pc = "done", !.ret = Resp("ok")]
                /\ store' = Append(store, AddCall(Range(i, j), up.embeds, FALSE))
    /\ UNCHANGED <<kq, dir, data, pc, req, loc, hist, last, collection, em, ch, cc,
                   chat, srv, ad>>

(***************************************************************************)
(* Embedder.Embed: hfEmbedder (src/unnamed/part_004:268-335) and           *)
(* teiEmbedder (src/unnamed/part_004:346-408).  The passages are sent in   *)
(* batches, one POST per batch, and each response is checked before its    *)
(* vectors are assigned.                                                   *)
(***************************************************************************)
MaxEmbedN == 4       \* passages of one Embed call
DefaultBatch == 64   \* getBatchSize: return 64

DigitVal(c) ==
    CASE c = "0" -> 0 [] c = "1" -> 1 [] c = "2" -> 2 [] c = "3" -> 3 [] c = "4" -> 4
      [] c = "5" -> 5 [] c = "6" -> 6 [] c = "7" -> 7 [] c = "8" -> 8 [] c = "9" -> 9
IsDigit(c) == c \in {"0", "1", "2", "3", "4", "5", "6", "7", "8", "9"}

RECURSIVE DigitsVal(_)
DigitsVal(ds) == IF ds = <<>> THEN 0
                 ELSE 10 * DigitsVal(SubSeq(ds, 1, Len(ds) - 1)) + DigitVal(ds[Len(ds)])

\* strconv.Atoi: an optional sign, then one or more decimal digits.
Atoi(v) ==
    LET signed == v # <<>> /\ v[1] \in {"-", "+"}
        ds == IF signed THEN Tail(v) ELSE v
    IN  IF ds = <<>> \/ \E k \in 1..Len(ds) : ~IsDigit(ds[k])
        THEN [err |-> TRUE, n |-> 0]
        ELSE [err |-> FALSE,
              n |-> IF signed /\ v[1] = "-" THEN 0 - DigitsVal(ds) ELSE DigitsVal(ds)]

\* A batch size that turns a number that is not positive into 1.
getBatchSize_FloorOne(v) ==
    IF v # <<>> /\ ~Atoi(v).err THEN (IF Atoi(v).n > 0 THEN Atoi(v).n ELSE 1) ELSE DefaultBatch

\* getBatchSize (lines 238-245): EMBEDDING_BATCH_SIZE when it is a positive
\* integer, else 64.
getBatchSize(v) ==
    IF v # <<>> /\ ~Atoi(v).err /\ Atoi(v).n > 0 THEN Atoi(v).n ELSE DefaultBatch

\* Values of EMBEDDING_BATCH_SIZE: unset, not a number, not positive, positive.
BatchEnvs == { <<>>, <<"x">>, <<"-", "1">>, <<"0">>, <<"1">>, <<"2">>, <<"+", "2">> }

EmbedderKinds == {"hf", "tei"}   \* NewEmbedderFromEnv, lines 203-236

\* The vector at position k of the body of the q-th response of a call.
RespVec(q, k) == q * 10 + k

\* What the backend may answer to a batch of `want` inputs: no answer at all,
\* a status other than 200, a 200 whose body does not decode, or a 200 whose
\* body decodes to `count` vectors.
Responses(want) ==
    { [status |-> "transport", decodes |-> FALSE, count |-> 0],
      [status |-> "non200", decodes |-> TRUE, count |-> want],
      [status |-> "ok", decodes |-> FALSE, count |-> 0] }
    \cup { [status |-> "ok", decodes |-> TRUE, count |-> c] : c \in 0..(want + 1) }

BodyOf(q, resp) == [k \in 1..resp.count |-> RespVec(q, k)]

EmIdle == [kind |-> "none", pc |-> "idle", n |-> 0, batch |-> 0, i |-> 0,
           out |-> <<>>, resBody |-> <<>>, resps |-> <<>>, ret |-> Pending,
           env |-> <<>>]     \* EMBEDDING_BATCH_SIZE

\* An error check that takes every answered request for a 200.
ResponseError_IgnoresStatus(resp) ==
    IF resp.status = "transport" THEN "transport"
    ELSE IF ~resp.decodes THEN "decode"
    ELSE "none"

\* lines 303-323 (hf) and 380-397 (tei): client.Do failed, the status is not
\* 200, or the body does not decode.
ResponseError(resp) ==
    IF resp.status = "transport" THEN "transport"
    ELSE IF resp.status # "ok" THEN "non200"
    ELSE IF ~resp.decodes THEN "decode"
    ELSE "none"

\* A count check that only refuses a body with too few vectors.
CountMismatch_OnlyShort(body, part) == Len(body) < Len(part)

\* line 324 (hf) and line 398 (tei): len(resBody) != len(batch)
CountMismatch(body, part) == Len(body) # Len(part)

\* lines 327-332 (hf) and 401-405 (tei): out[c.ID] = vec for the batch
Assign(out, part, body) ==
    [id \in DOMAIN out \cup {part[k] : k \in 1..Len(part)} |->
        IF \E k \in 1..Len(part) : part[k] = id
        THEN body[CHOOSE k \in 1..Len(part) : part[k] = id]
        ELSE out[id]]

\* lines 268-272 (hf) and 346-350 (tei): no chunks, no request.
EmbedBegin(kind, env, n) ==
    /\ em.pc = "idle"
    /\ em' = IF n = 0
             THEN [EmIdle EXCEPT !.kind = kind, !.pc = "done", !.batch = getBatchSize(env),
                                 !.env = env, !.ret = Ok(MapOf(<<>>))]
             ELSE [EmIdle EXCEPT !.kind = kind, !.pc = "batch", !.n = n,
                                 !.env = env, !.batch = getBatchSize(env)]
    /\ UNCHANGED <<kq, dir, data, pc, req, loc, hist, last, up, collection, store, ch, cc,
                   chat, srv, ad>>

\* One turn of the loop, lines 286-333 (hf) and 361-406 (tei): POST
\* chunks[i:j], check the response, assign its vectors.  hf decodes into
\* resBody, declared before the loop; tei into a new rb each turn.
EmbedBatch(resp) ==
    /\ em.pc = "batch"
    /\ LET i == em.i
           j == MinInt(i + em.batch, em.n)
           part == Range(i, j)
           q == Len(em.resps) + 1
           e == ResponseError(resp)
           body == BodyOf(q, resp)
           seen == [em EXCEPT !.resps = Append(@, [resp |-> resp, want |-> Len(part),
                                                   part |-> part])]
           got == IF em.kind = "hf" THEN [seen EXCEPT !.resBody = body] ELSE seen
           rb == IF em.kind = "hf" THEN got.resBody ELSE body
           out == Assign(em.out, part, rb)
       IN  /\ resp \in Responses(Len(part))
           /\ em' = IF e # "none"
                    THEN [seen EXCEPT !.pc = "done", !.ret = Err(e)]
                    ELSE IF CountMismatch(rb, part)
                    THEN [got EXCEPT !.pc = "done", !.ret = Err("count-mismatch")]
                    ELSE IF j < em.n
                    THEN [got EXCEPT !.i = j, !.out = out]
                    ELSE [got EXCEPT !.i = j, !.out = out, !.pc = "done",
                                     !.ret = Ok(MapOf(out))]
    /\ UNCHANGED <<kq, dir, data, pc, req, loc, hist, last, up, collection, store, ch, cc,
                   chat, srv, ad>>

(***************************************************************************)
(* simpleChunkDocument (src/main.go:64-108): the text is split on "." into *)
(* sentences, and consecutive sentences are grouped into chunks.           *)
(***************************************************************************)
MaxTextLen == 5      \* characters of an enumerated text
MaxGroup == 3        \* sentencesPerChunk ranges over 1..MaxGroup

TextChars == {"a", "b", " ", ".", "\n", "\r"}
WhiteSpace == {" ", "\n", "\r", "\t"}   \* the white space of strings.TrimSpace met here

\* A trim that leaves the string as it is.
TrimSpace_None(str) == str

\* strings.TrimSpace: the string without its leading and trailing white space
TrimSpace(str) ==
    LET Black == {k \in 1..Len(str) : str[k] \notin WhiteSpace}
    IN  IF Black = {} THEN <<>> ELSE SubSeq(str, MinOf(Black), MaxOf(Black))

\* strings.ReplaceAll for a one-character `old`
ReplaceAll(str, old, new) == [k \in 1..Len(str) |-> IF str[k] = old THEN new ELSE str[k]]

RECURSIVE Split(_, _)
\* strings.Split for a one-character separator: the pieces between the
\* separators, empty ones included
Split(str, sep) ==
    LET At == {k \in 1..Len(str) : str[k] = sep}
    IN  IF At = {} THEN <<str>>
        ELSE <<SubSeq(str, 1, MinOf(At) - 1)>>
             \o Split(SubSeq(str, MinOf(At) + 1, Len(str)), sep)

\* Sentences that count only the pieces a "." follows: the last piece is left out.
RECURSIVE Sentences_OnlyTerminated(_)
Sentences_OnlyTerminated(raw) ==
    IF Len(raw) <= 1 THEN <<>>
    ELSE LET t == TrimSpace(Head(raw))
         IN  (IF t # <<>> THEN <<t \o <<".">>>> ELSE <<>>)
             \o Sentences_OnlyTerminated(Tail(raw))

\* lines 75-81: the trimmed pieces that are not empty, each with its "."
RECURSIVE Sentences(_)
Sentences(raw) ==
    IF raw = <<>> THEN <<>>
    ELSE LET t == TrimSpace(Head(raw))
         IN  (IF t # <<>> THEN <<t \o <<".">>>> ELSE <<>>) \o Sentences(Tail(raw))

\* strings.Join(current, " ")
RECURSIVE Join(_)
Join(ss) == IF ss = <<>> THEN <<>>
            ELSE IF Len(ss) = 1 THEN ss[1]
            ELSE ss[1] \o <<" ">> \o Join(Tail(ss))

\* Ids that count from one.
ChunkID_FromOne(docID, index) == docID \o <<"-">> \o FmtInt(index + 1)

\* lines 92 and 102: fmt.Sprintf("%s-%d", docID, index)
ChunkID(docID, index) == docID \o <<"-">> \o FmtInt(index)

NewChunk(docID, index, current) == [ID |-> ChunkID(docID, index), Text |-> Join(current)]

\* A test that closes a group one sentence late.
GroupFull_Late(current, n) == Len(current) > n

\* line 89: len(current) >= sentencesPerChunk
GroupFull(current, n) == Len(current) >= n

\* A loop end that drops the sentences left over.
FinalChunk_Dropped(docID, index, current) == <<>>

\* lines 99-105: the sentences left over make the last chunk
FinalChunk(docID, index, current) ==
    IF Len(current) > 0 THEN <<NewChunk(docID, index, current)>> ELSE <<>>

\* lines 83-107: the loop over the sentences from the k-th on, then the rest
RECURSIVE GroupLoop(_, _, _, _, _, _, _)
GroupLoop(sentences, k, docID, n, chunks, current, index) ==
    IF k > Len(sentences) THEN chunks \o FinalChunk(docID, index, current)
    ELSE LET cur == Append(current, sentences[k])
         IN  IF GroupFull(cur, n)
             THEN GroupLoop(sentences, k + 1, docID, n,
                            Append(chunks, NewChunk(docID, index, cur)), <<>>, index + 1)
             ELSE GroupLoop(sentences, k + 1, docID, n, chunks, cur, index)

simpleChunkDocument(docID, text, sentencesPerChunk) ==
    LET trimmed == TrimSpace(text)
        spaced == ReplaceAll(ReplaceAll(trimmed, "\n", " "), "\r", " ")
        sentences == Sentences(Split(spaced, "."))
    IN  IF trimmed = <<>> THEN <<>>
        ELSE GroupLoop(sentences, 1, docID, sentencesPerChunk, <<>>, <<>>, 0)

\* A text of three sentences: Hello world. This is a test. Bye now.
ScenarioA ==
    <<"H", "e", "l", "l", "o", " ", "w", "o", "r", "l", "d", ".", " ",
      "T", "h", "i", "s", " ", "i", "s", " ", "a", " ", "t", "e", "s",
      "t", ".", " ", "B", "y", "e", " ", "n", "o", "w", ".">>

Texts == UNION {[1..k -> TextChars] : k \in 0..MaxTextLen} \cup {ScenarioA}
DocIDs == { <<"d", "o", "c">> }
GroupSizes == 1..MaxGroup
ChIdle == [st |-> "idle"]

\* One call of simpleChunkDocument (src/handlers.go:25).
ChunkDocument ==
    /\ ch.st = "input"
    /\ ch' = [ch EXCEPT !.st = "done",
                        !.out = simpleChunkDocument(ch.docID, ch.text, ch.n)]
    /\ UNCHANGED <<kq, dir, data, pc, req, loc, hist, last, up, collection, store, em, cc,
                   chat, srv, ad>>

(***************************************************************************)
(* chromaClient.getOrCreateCollection (src/unnamed/part_001:81-160): a     *)
(* lookup by name, then a create, each tried at the client's two bases in  *)
(* turn.  The store keeps the collections it created; it serves one or     *)
(* both of the bases and answers 404 at a base it does not serve.          *)
(***************************************************************************)
MaxCalls == 3        \* calls of getOrCreateCollection, one after another

bases == <<"/api/v1", "/v1">>   \* newChromaClient, line 67
NoCol == ""                     \* the id of no collection
ColId(k) == <<"col", k>>        \* the id of the k-th collection the store creates

\* What may go wrong with one request: nothing; the request never arrives;
\* the store answers 500; the body does not decode; the decoded id is empty;
\* the answer is lost after the store has acted.
GetFaults == {"none", "transport", "500", "undecodable", "empty-id"}
PostFaults == {"none", "transport", "500", "undecodable", "lost"}

CcIdle == [pc |-> "idle", api |-> {"/api/v1", "/v1"}, col |-> NoCol, b |-> 1,
           calls |-> 0, creates |-> 0, made |-> 0, found |-> FALSE, created |-> FALSE,
           faulted |-> FALSE, rets |-> <<>>]

\* The store's answer to GET <base>/collections/<name>.
GetAnswer(c, base, fault) ==
    IF fault = "transport" THEN [status |-> 0, decodes |-> FALSE, id |-> NoCol]
    ELSE IF fault = "500" THEN [status |-> 500, decodes |-> FALSE, id |-> NoCol]
    ELSE IF base \notin c.api \/ c.col = NoCol
    THEN [status |-> 404, decodes |-> FALSE, id |-> NoCol]
    ELSE [status |-> 200, decodes |-> fault # "undecodable",
          id |-> IF fault = "empty-id" THEN NoCol ELSE c.col]

\* lines 102-121: the request at one base gives the collection or an error
GetOk(ans) == ans.status = 200 /\ ans.decodes

\* A test that takes no lookup for a success.
LookupHit_Never(ok, id) == FALSE

\* line 84: err == nil && col != nil && col.ID != ""
LookupHit(ok, id) == ok /\ id # NoCol

\* Whether the store creates the collection on POST <base>/collections.
Creates(c, base, fault) == fault # "transport" /\ base \in c.api /\ c.col = NoCol

\* The store's answer to POST <base>/collections.
PostAnswer(c, base, fault) ==
    IF fault \in {"transport", "lost"} THEN [status |-> 0, decodes |-> FALSE, id |-> NoCol]
    ELSE IF fault = "500" THEN [status |-> 500, decodes |-> FALSE, id |-> NoCol]
    ELSE IF base \notin c.api THEN [status |-> 404, decodes |-> FALSE, id |-> NoCol]
    ELSE IF c.col # NoCol THEN [status |-> 409, decodes |-> FALSE, id |-> NoCol]
    ELSE [status |-> 200, decodes |-> fault # "undecodable", id |-> ColId(c.made + 1)]

\* lines 148-157: a 200 or 201 whose body decodes
PostOk(ans) == ans.status \in {200, 201} /\ ans.decodes

CcReturn(c, ok, id) ==
    [c EXCEPT !.pc = "done", !.calls = @ + 1, !.rets = Append(@, [ok |-> ok, id |-> id])]

\* line 83: the call begins with the lookup at the first base.
GocBegin ==
    /\ cc.pc \in {"idle", "done"}
    /\ cc.calls < MaxCalls
    /\ cc' = [cc EXCEPT !.pc = "get", !.b = 1, !.found = FALSE, !.created = FALSE]
    /\ UNCHANGED <<kq, dir, data, pc, req, loc, hist, last, up, collection, store, em, ch,
                   chat, srv, ad>>

\* getCollectionByName, one turn of its loop (lines 97-122), then lines 84-88
\* when the loop ends.
GocGet(fault) ==
    /\ cc.pc = "get"
    /\ LET ans == GetAnswer(cc, bases[cc.b], fault)
           c == [cc EXCEPT !.faulted = @ \/ fault # "none"]
       IN  cc' = IF GetOk(ans)
                 THEN IF LookupHit(TRUE, ans.id)
                      THEN CcReturn([c EXCEPT !.found = TRUE], TRUE, ans.id)
                      ELSE [c EXCEPT !.pc = "create", !.b = 1, !.creates = @ + 1,
                                     !.created = TRUE]
                 ELSE IF cc.b < Len(bases)
                 THEN [c EXCEPT !.b = @ + 1]
                 ELSE IF LookupHit(FALSE, NoCol)
                 THEN CcReturn([c EXCEPT !.found = TRUE], TRUE, NoCol)
                 ELSE [c EXCEPT !.pc = "create", !.b = 1, !.creates = @ + 1,
                                !.created = TRUE]
    /\ UNCHANGED <<kq, dir, data, pc, req, loc, hist, last, up, collection, store, em, ch,
                   chat, srv, ad>>

\* createCollection, one turn of its loop (lines 136-158), then lines 89-92.
GocCreate(fault) ==
    /\ cc.pc = "create"
    /\ LET base == bases[cc.b]
           ans == PostAnswer(cc, base, fault)
           made == Creates(cc, base, fault)
           c == [cc EXCEPT !.faulted = @ \/ fault # "none",
                           !.col = IF made THEN ColId(cc.made + 1) ELSE @,
                           !.made = IF made THEN @ + 1 ELSE @]
       IN  cc' = IF PostOk(ans) THEN CcReturn(c, TRUE, ans.id)
                 ELSE IF cc.b < Len(bases) THEN [c EXCEPT !.b = @ + 1]
                 ELSE CcReturn(c, FALSE, NoCol)
    /\ UNCHANGED <<kq, dir, data, pc, req, loc, hist, last, up, collection, store, em, ch,
                   chat, srv, ad>>

(***************************************************************************)
(* One chat request: promptHandler (src/handlers.go:179-254) and           *)
(* GeminiLLM.Generate (src/geminiClient.go:28-34).  A text is a sequence   *)
(* of pieces; a piece is a string the handler never looks into.            *)
(***************************************************************************)
MaxDocs == 2                      \* passages a query result holds
NilDoc == "<nil>"                 \* a nil document in a result group
Queries == {"", "q1", "q2"}       \* ChatRequest.Query
Contexts == {"", "a", "b"}        \* ChatRequest.Context
DocTexts == {"d1", "d2"}

\* What collection.Query may hand back: no group, or one group of documents,
\* some of them nil.
RECURSIVE SeqsUpTo(_, _)
SeqsUpTo(S, n) == IF n = 0 THEN {<<>>}
                  ELSE SeqsUpTo(S, n - 1) \cup {Append(q, x) : q \in SeqsUpTo(S, n - 1), x \in S}
DocGroups == {<<>>} \cup {<<g>> : g \in SeqsUpTo(DocTexts \cup {NilDoc}, MaxDocs)}

ChatIdle == [pc |-> "idle", query |-> "", context |-> "",
             emb |-> "none",      \* how embedding the query went
             qry |-> "none",      \* how the store query went
             docs |-> <<>>,       \* the document groups the store returned
             retrieved |-> <<>>,
             asked |-> <<>>,      \* the prompts handed to Generate
             gen |-> "none",      \* how Generate went
             ret |-> [status |-> "pending", code |-> 0, msg |-> "", answer |-> "", context |-> <<>>]]
HttpError(code, msg) ==
    [status |-> "error", code |-> code, msg |-> msg, answer |-> "", context |-> <<>>]
Panic == [status |-> "panic", code |-> 0, msg |-> "", answer |-> "", context |-> <<>>]
\* lines 249-253: ChatResponse{Answer, Context} as JSON
ChatResponse(answer, retrieved) ==
    [status |-> "ok", code |-> 200, msg |-> "", answer |-> answer, context |-> retrieved]

\* A check that lets an empty query through.
BadRequest_QueryUnchecked(readErr, query, context) == readErr \/ context = ""

\* line 184
BadRequest(readErr, query, context) == readErr \/ query = "" \/ context = ""

\* lines 223-232: the documents of the first group, nil ones skipped
RECURSIVE NonNil(_)
NonNil(g) == IF g = <<>> THEN <<>>
             ELSE IF Head(g) = NilDoc THEN NonNil(Tail(g))
             ELSE <<Head(g)>> \o NonNil(Tail(g))
Retrieved(docsGroups) == IF Len(docsGroups) > 0 THEN NonNil(docsGroups[1]) ELSE <<>>

\* strings.Join(elems, sep), as pieces
RECURSIVE JoinSep(_, _)
JoinSep(elems, sep) == IF elems = <<>> THEN <<>>
                       ELSE IF Len(elems) = 1 THEN elems
                       ELSE <<Head(elems), sep>> \o JoinSep(Tail(elems), sep)

\* A context block that says so when nothing was retrieved.
ContextBlock_Placeholder(retrieved) ==
    IF retrieved = <<>> THEN <<"(no context)">> ELSE JoinSep(retrieved, "\n")

\* line 234
ContextBlock(retrieved) == JoinSep(retrieved, "\n")

\* lines 237-240: the prompt, around the two %s
PromptHead == "Context:\n"
PromptMid == "\n\nQuestion: "
PromptTail == "\n\nBased on the context above, generate a succinct answer."
BuildPrompt(contextBlock, query) ==
    <<PromptHead>> \o contextBlock \o <<PromptMid, query, PromptTail>>

\* lines 181-188: read and check the request.
ChatBegin(readErr, query, context) ==
    /\ srv.alive
    /\ chat.pc = "idle"
    /\ chat' = IF BadRequest(readErr, query, context)
               THEN [ChatIdle EXCEPT !.pc = "done", !.query = query, !.context = context,
                                     !.ret = HttpError(400, "expected {context, query}")]
               ELSE [ChatIdle EXCEPT !.pc = "embed", !.query = query, !.context = context]
    /\ UNCHANGED <<kq, dir, data, pc, req, loc, hist, last, up, collection, store, em, ch, cc,
                   srv, ad>>

\* lines 190-208: NewEmbedderFromEnv, Embed of the one chunk "q", its vector.
ChatEmbed(envOk, ok, hasQ) ==
    /\ srv.alive
    /\ chat.pc = "embed"
    /\ chat' = IF ~envOk
               THEN [chat EXCEPT !.pc = "done", !.ret = HttpError(500, "failed to NewEmbedderFromEnv")]
               ELSE IF ~ok
               THEN [chat EXCEPT !.pc = "done", !.emb = "failed",
                                 !.ret = HttpError(500, "failed to embed query")]
               ELSE IF ~hasQ
               THEN [chat EXCEPT !.pc = "done", !.emb = "missing",
                                 !.ret = HttpError(500, "missing query embedding")]
               ELSE [chat EXCEPT !.pc = "query", !.emb = "ok"]
    /\ UNCHANGED <<kq, dir, data, pc, req, loc, hist, last, up, collection, store, em, ch, cc,
                   srv, ad>>

\* lines 211-240: collection.Query, then the retrieved texts and the prompt;
\* a nil handle panics.
ChatQuery(ok, docsGroups) ==
    /\ srv.alive
    /\ chat.pc = "query"
    /\ chat' = IF collection = "nil" THEN [chat EXCEPT !.pc = "done", !.ret = Panic]
               ELSE IF ~ok
               THEN [chat EXCEPT !.pc = "done", !.qry = "failed",
                                 !.ret = HttpError(500, "chroma query failed")]
               ELSE [chat EXCEPT !.pc = "generate", !.qry = "ok", !.docs = docsGroups,
                                 !.retrieved = Retrieved(docsGroups)]
    /\ UNCHANGED <<kq, dir, data, pc, req, loc, hist, last, up, collection, store, em, ch, cc,
                   srv, ad>>

\* lines 242-253: one geminiLLM.Generate, then the response.
ChatGenerate(ok) ==
    /\ srv.alive
    /\ chat.pc = "generate"
    /\ LET prompt == BuildPrompt(ContextBlock(chat.retrieved), chat.query)
       IN  chat' = IF srv.gemini = "nil" THEN [chat EXCEPT !.pc = "done", !.ret = Panic]
                   ELSE IF ~ok
                   THEN [chat EXCEPT !.pc = "done", !.asked = Append(@, prompt),
                                     !.gen = "failed",
                                     !.ret = HttpError(500, "gemini failed")]
                   ELSE [chat EXCEPT !.pc = "done", !.asked = Append(@, prompt),
                                     !.gen = "ok",
                                     !.ret = ChatResponse("answer", chat.retrieved)]
    /\ UNCHANGED <<kq, dir, data, pc, req, loc, hist, last, up, collection, store, em, ch, cc,
                   srv, ad>>

(***************************************************************************)
(* The process: main (src/unnamed/part_006:42-86) has the collection       *)
(* handle and the answer client before it serves; net/http runs each       *)
(* request in a goroutine of its own and recovers a handler's panic.       *)
(***************************************************************************)
MaxUploads == 1    \* uploads that may follow the first one
MaxServeN == 1     \* passages of an uploaded document

SrvIdle == [alive |-> TRUE,          \* the process runs
            gemini |-> "client",     \* geminiLLM, set by initGeminiLLM
            mode |-> "auto",         \* EMBED_CACHE_MODE
            uploads |-> 0]           \* uploads that have returned

\* A handler returned: its goroutine ends and another request may come.
UploadEnd ==
    /\ srv.alive
    /\ up.path = "handler" /\ up.pc = "done"
    /\ srv.uploads < MaxUploads
    /\ up' = UpIdle
    /\ srv' = [srv EXCEPT !.uploads = @ + 1]
    /\ UNCHANGED <<kq, dir, data, pc, req, loc, hist, last, collection, store, em, ch, cc,
                   chat, ad>>

ChatEnd ==
    /\ srv.alive
    /\ chat.pc = "done"
    /\ chat' = ChatIdle
    /\ UNCHANGED <<kq, dir, data, pc, req, loc, hist, last, up, collection, store, em, ch, cc,
                   srv, ad>>

(***************************************************************************)
(* chromaClient.add (src/unnamed/part_001:162-200), called once for each   *)
(* batch of UpsertChunksToChroma (line 49).                                *)
(***************************************************************************)
MaxAdds == 2         \* batches added one after another
MaxAddN == 2         \* passages in one batch

\* What may go wrong with one POST: nothing; the request never arrives; the
\* store answers 500 and keeps nothing; the answer is lost after the store
\* has kept the batch.
AddFaults == {"none", "transport", "500", "lost"}

AdIdle == [pc |-> "idle", api |-> {"/api/v1", "/v1"}, call |-> 0, ids |-> <<>>, b |-> 1,
           posts |-> <<>>,     \* the requests sent: [call, base, ids]
           kept |-> <<>>,      \* the calls whose batch the store persisted, one entry each time
           rets |-> <<>>]

\* The status of the answer to POST <base>/collections/<id>/add; 0 for none.
AddStatus(a, base, fault) ==
    IF fault \in {"transport", "lost"} THEN 0
    ELSE IF fault = "500" THEN 500
    ELSE IF base \notin a.api THEN 404
    ELSE 200

\* Whether the store persists the batch a POST carries.
Keeps(a, base, fault) == fault \in {"none", "lost"} /\ base \in a.api

\* line 181: for _, b := range c.bases goes on to the next base
NextBase(b) == b < Len(bases)

AdReturn(a, ok) == [a EXCEPT !.pc = "done", !.rets = Append(@, [call |-> a.call, ok |-> ok])]

\* lines 163-179: no items is an error; else the body is built once.
AddBegin(n) ==
    /\ ad.pc \in {"idle", "done"}
    /\ ad.call < MaxAdds
    /\ LET a == [ad EXCEPT !.call = @ + 1, !.ids = Range(0, n), !.b = 1]
       IN  ad' = IF n = 0 THEN AdReturn(a, FALSE) ELSE [a EXCEPT !.pc = "post"]
    /\ UNCHANGED <<kq, dir, data, pc, req, loc, hist, last, up, collection, store, em, ch, cc,
                   chat, srv>>

\* lines 181-199, one turn of the loop: POST the body to the base.
AddPost(fault) ==
    /\ ad.pc = "post"
    /\ LET base == bases[ad.b]
           a == [ad EXCEPT !.posts = Append(@, [call |-> ad.call, base |-> base, ids |-> ad.ids]),
                           !.kept = IF Keeps(ad, base, fault) THEN Append(@, ad.call) ELSE @]
       IN  ad' = IF AddStatus(ad, base, fault) = 200 THEN AdReturn(a, TRUE)
                 ELSE IF NextBase(ad.b) THEN [a EXCEPT !.b = @ + 1]
                 ELSE AdReturn(a, FALSE)
    /\ UNCHANGED <<kq, dir, data, pc, req, loc, hist, last, up, collection, store, em, ch, cc,
                   chat, srv>>

(***************************************************************************)
(* Initial states and specifications.                                      *)
(***************************************************************************)
KeyIdle == kq = NoKey
CacheIdle ==
    /\ pc = [r \in Reqs |-> "idle"]
    /\ req = [r \in Reqs |-> ReqIdle]
    /\ loc = [r \in Reqs |-> LocIdle]
    /\ hist = [r \in Reqs |-> HistIdle]
    /\ last = NoLast
IndexIdle ==
    /\ up = UpIdle
    /\ collection = "rag_demo"   \* initChromaCollection, src/unnamed/part_006:160-167
    /\ store = <<>>
EmbedIdle == em = EmIdle
ChunkIdle == ch = ChIdle
ClientIdle == cc = CcIdle
ServeIdle == chat = ChatIdle /\ srv = SrvIdle
AddIdle == ad = AdIdle
\* The parts of the program a specification leaves at rest.
RestIdle == EmbedIdle /\ ChunkIdle /\ ClientIdle /\ ServeIdle /\ AddIdle

\* An entry an earlier run saved for the first input.
OldEntry(emb) ==
    LET in == CHOOSE i \in CacheInputs : i.content = "c0"
    IN  Marshal([Version |-> 1, Key |-> KeyOf(in), Model |-> in.model, Embeddings |-> emb])
OldSaved == OldEntry(MapOf([i \in ChunkIds(1) |-> 1]))

\* What the cache path may hold at start: a saved entry, an entry whose
\* embeddings are null, or a file cut short.
OldFiles == { OldSaved, OldEntry(NilMap), SubSeq(OldSaved, 1, 3) }

\* The file system at start: the cache file `c` in inode 0 and the temporary
\* file `t` in inode 1, each absent when the flag says so.
Fs(hasC, c, hasT, t) ==
    /\ dir = [p \in Paths |-> IF p = CachePath /\ hasC THEN 0
                              ELSE IF p = TmpPath /\ hasT THEN 1 ELSE NoFile]
    /\ data = [i \in Inodes |-> IF i = 0 /\ hasC THEN c
                                ELSE IF i = 1 /\ hasT THEN t ELSE <<>>]
FsEmpty == Fs(FALSE, <<>>, FALSE, <<>>)

\* ---- the cache key ----
InitKey ==
    /\ kq \in {[st |-> "input", a |-> a, b |-> a, k1 |-> <<>>, k2 |-> <<>>] : a \in KeyInputs}
    /\ CacheIdle /\ FsEmpty /\ IndexIdle /\ RestIdle
NextKey == ComputeKey \/ ComputeChangedKey
SpecKey == InitKey /\ [][NextKey]_vars

\* ---- embedWithCache, one call after another, with I/O errors ----
\* os.WriteFile hands the whole buffer to one write(2).
InitCache ==
    /\ KeyIdle /\ CacheIdle /\ IndexIdle /\ RestIdle
    /\ FsEmpty \/ \E b \in OldFiles : Fs(TRUE, b, FALSE, <<>>)
NextCache ==
    \/ \E mode \in EnvModes, in \in CacheInputs, n \in 0..MaxChunks : Begin(1, mode, in, n)
    \/ \E ioErr \in BOOLEAN : Load(1, ioErr)
    \/ \E res \in EmbedResults(req[1].n) : Embed(1, res)
    \/ \E fail \in BOOLEAN : Mkdir(1, fail)
    \/ \E fail \in BOOLEAN : Open(1, fail)
    \/ \E fail \in BOOLEAN : Write(1, Len(loc[1].buf), fail)
    \/ \E fail \in BOOLEAN : Rename(1, fail)
SpecCache == InitCache /\ [][NextCache]_vars

\* ---- one save that the process may not survive ----
\* A write(2) may be partial, and an earlier run may have left a temporary file.
InitCrash ==
    /\ KeyIdle /\ CacheIdle /\ IndexIdle /\ RestIdle
    /\ \E hasC \in BOOLEAN, hasT \in BOOLEAN, k \in 0..Len(OldSaved) :
          Fs(hasC, OldSaved, hasT, SubSeq(OldSaved, 1, k))
NextCrash ==
    \/ \E in \in CacheInputs, n \in 0..MaxChunks : pc[1] = "idle" /\ Begin(1, "auto", in, n)
    \/ Load(1, FALSE)
    \/ \E res \in EmbedResults(req[1].n) : Embed(1, res)
    \/ \E fail \in BOOLEAN : Mkdir(1, fail)
    \/ \E fail \in BOOLEAN : Open(1, fail)
    \/ \E k \in 1..Len(loc[1].buf), fail \in BOOLEAN : Write(1, k, fail)
    \/ \E fail \in BOOLEAN : Rename(1, fail)
    \/ Crash(1)
SpecCrash == InitCrash /\ [][NextCrash]_vars

\* ---- concurrent requests in mode auto, without I/O errors ----
InitWriters ==
    /\ KeyIdle /\ CacheIdle /\ IndexIdle /\ RestIdle
    /\ FsEmpty \/ Fs(TRUE, OldSaved, FALSE, <<>>)
NextWriters ==
    \E r \in Reqs :
        \/ \E in \in CacheInputs, n \in 0..MaxChunks : pc[r] = "idle" /\ Begin(r, "auto", in, n)
        \/ Load(r, FALSE)
        \/ \E res \in EmbedResults(req[r].n) : res.ok /\ Embed(r, res)
        \/ Mkdir(r, FALSE)
        \/ Open(r, FALSE)
        \/ \E k \in 1..Len(loc[r].buf) : Write(r, k, FALSE)
        \/ Rename(r, FALSE)
SpecWriters == InitWriters /\ [][NextWriters]_vars

\* ---- indexing one document ----
InitIndex == KeyIdle /\ CacheIdle /\ FsEmpty /\ IndexIdle /\ RestIdle
NextIndex ==
    \/ \E in \in CacheInputs, n \in 0..MaxN : UploadBegin(in, n)
    \/ \E envOk \in BOOLEAN, ok \in BOOLEAN, missing \in MissingSets(up.n) :
          UploadEmbed(envOk, ok, missing)
    \/ UploadAssemble
    \/ \E ok \in BOOLEAN : UploadGetCollection(ok)
    \/ \E ok \in BOOLEAN : UploadAdd(ok)
    \/ \E ok \in BOOLEAN : UploadCount(ok)
    \/ \E n \in 0..MaxN, ok \in BOOLEAN : \E missing \in MissingSets(n) : UpsertBegin(n, missing, ok)
    \/ \E ok \in BOOLEAN : UpsertBatch(ok)
SpecIndex == InitIndex /\ [][NextIndex]_vars

\* ---- one Embed call ----
InitEmbed == KeyIdle /\ CacheIdle /\ FsEmpty /\ IndexIdle /\ RestIdle
NextEmbed ==
    \/ \E kind \in EmbedderKinds, env \in BatchEnvs, n \in 0..MaxEmbedN : EmbedBegin(kind, env, n)
    \/ \E resp \in Responses(MinInt(em.batch, em.n - em.i)) : EmbedBatch(resp)
SpecEmbed == InitEmbed /\ [][NextEmbed]_vars
\* The call is sequential code of a running goroutine, and each request ends
\* with an answer or with the client's timeout (part_004:208, 228).
SpecEmbedFair == SpecEmbed /\ WF_vars(NextEmbed)

\* ---- one call of simpleChunkDocument ----
InitChunk ==
    /\ KeyIdle /\ CacheIdle /\ FsEmpty /\ IndexIdle /\ EmbedIdle /\ ClientIdle
    /\ ServeIdle /\ AddIdle
    /\ ch \in {[st |-> "input", docID |-> d, text |-> t, n |-> n, out |-> <<>>] :
                  d \in DocIDs, t \in Texts, n \in GroupSizes}
NextChunk == ChunkDocument
SpecChunk == InitChunk /\ [][NextChunk]_vars

\* ---- calls of getOrCreateCollection, one after another ----
InitClient ==
    /\ KeyIdle /\ CacheIdle /\ FsEmpty /\ IndexIdle /\ EmbedIdle /\ ChunkIdle
    /\ ServeIdle /\ AddIdle
    /\ \E api \in (SUBSET {"/api/v1", "/v1"}) \ {{}}, had \in BOOLEAN :
          cc = [CcIdle EXCEPT !.api = api,
                              !.col = IF had THEN ColId(0) ELSE NoCol]
NextClient ==
    \/ GocBegin
    \/ \E fault \in GetFaults : GocGet(fault)
    \/ \E fault \in PostFaults : GocCreate(fault)
SpecClient == InitClient /\ [][NextClient]_vars

\* ---- the process serving uploads and chat requests ----
\* The two handlers run side by side; the cache file holds the entry an
\* earlier run saved for the first input, and EMBED_CACHE_MODE is auto or off.
InitServe ==
    /\ KeyIdle /\ CacheIdle /\ IndexIdle /\ EmbedIdle /\ ChunkIdle /\ ClientIdle /\ AddIdle
    /\ Fs(TRUE, OldSaved, FALSE, <<>>)
    /\ chat = ChatIdle
    /\ \E mode \in {"auto", "off"} : srv = [SrvIdle EXCEPT !.mode = mode]
NextServe ==
    \/ \E in \in CacheInputs, n \in 0..MaxServeN : UploadBegin(in, n)
    \/ \E envOk \in BOOLEAN, ok \in BOOLEAN, missing \in MissingSets(up.n) :
          UploadEmbed(envOk, ok, missing)
    \/ UploadAssemble
    \/ \E ok \in BOOLEAN : UploadGetCollection(ok)
    \/ \E ok \in BOOLEAN : UploadAdd(ok)
    \/ \E ok \in BOOLEAN : UploadCount(ok)
    \/ UploadEnd
    \/ \E readErr \in BOOLEAN : ChatBegin(readErr, "q1", "a")
    \/ \E envOk \in BOOLEAN, ok \in BOOLEAN, hasQ \in BOOLEAN : ChatEmbed(envOk, ok, hasQ)
    \/ \E ok \in BOOLEAN, docsGroups \in {<<>>, <<<<"d1">>>>} : ChatQuery(ok, docsGroups)
    \/ \E ok \in BOOLEAN : ChatGenerate(ok)
    \/ ChatEnd
SpecServe == InitServe /\ [][NextServe]_vars

\* ---- chat requests, one after another ----
InitChat == KeyIdle /\ CacheIdle /\ FsEmpty /\ IndexIdle /\ RestIdle
NextChat ==
    \/ \E readErr \in BOOLEAN, query \in Queries, context \in Contexts :
          ChatBegin(readErr, query, context)
    \/ \E envOk \in BOOLEAN, ok \in BOOLEAN, hasQ \in BOOLEAN : ChatEmbed(envOk, ok, hasQ)
    \/ \E ok \in BOOLEAN, docsGroups \in DocGroups : ChatQuery(ok, docsGroups)
    \/ \E ok \in BOOLEAN : ChatGenerate(ok)
    \/ ChatEnd
SpecChat == InitChat /\ [][NextChat]_vars

\* ---- add calls of the store client, one after another ----
InitAdd ==
    /\ KeyIdle /\ CacheIdle /\ FsEmpty /\ IndexIdle /\ EmbedIdle /\ ChunkIdle /\ ClientIdle
    /\ ServeIdle
    /\ \E api \in (SUBSET {"/api/v1", "/v1"}) \ {{}} : ad = [AdIdle EXCEPT !.api = api]
NextAdd ==
    \/ \E n \in 0..MaxAddN : AddBegin(n)
    \/ \E fault \in AddFaults : AddPost(fault)
SpecAdd == InitAdd /\ [][NextAdd]_vars

(***************************************************************************)
(* Properties.                                                             *)
(***************************************************************************)
CacheView == FileView(dir, data, CachePath)
\* The entry request r saves, as the bytes of the file.
SavedBy(r) == Marshal(NewCacheFile(KeyOf(req[r].in), req[r].in.model, hist[r].res.out))
\* The ids of the document in progress that its embedding result lacks.
MissingIds == ChunkIds(up.n) \ DOMAIN up.embeds

\* C1 (SpecIndex): indexing a document never persists a partial set: once the
\* embedding result is known to lack a passage id, no add call has been sent
\* for the document, and the request ends with an error naming a missing id,
\* whatever the number of passages and of upsert batches.
C1_NoPartialIndex ==
    (/\ up.pc \notin {"idle", "embed"}
     /\ up.ret.status \notin {"no-embedder", "embed-failed", "getcol-failed", "add-failed"}
     /\ MissingIds # {})
    => /\ store = <<>>
       /\ up.pc = "done" => (up.ret.status = "missing" /\ up.ret.id \in MissingIds)

\* The same statement for uploadHandler alone, which sends one add call.
UploadHandlerNoPartialIndex == up.path = "handler" => C1_NoPartialIndex

\* C2 (SpecCache): in mode auto, when the call before computed and persisted
\* the embeddings of the same document name, content, chunk parameter and
\* model, and the cache file can be read, the call returns the vectors the first
\* call returned and never invokes the embedding backend.
C2_SecondCallServedFromCache ==
    \A r \in Reqs :
        (/\ pc[r] = "done"
         /\ IsAuto(req[r].mode)
         /\ hist[r].prev.persisted
         /\ hist[r].prev.in = req[r].in
         /\ hist[r].load # "err")
        => /\ hist[r].ret.ok
           /\ hist[r].ret.emb = hist[r].prev.emb
           /\ hist[r].calls = 0

C2_Witness ==
    \E r \in Reqs :
        /\ pc[r] = "done" /\ req[r].mode = "auto" /\ req[r].n = 1
        /\ hist[r].prev.persisted /\ hist[r].prev.in = req[r].in
        /\ hist[r].load = "hit" /\ hist[r].calls = 0
        /\ hist[r].ret.emb = hist[r].prev.emb

\* C3 (SpecCache): in mode load the embedding backend is never invoked and the
\* cache file is never written; when the file is absent, or holds an entry with
\* another key, the call returns an error.
C3_LoadModeReadOnly ==
    \A r \in Reqs :
        req[r].mode = "load"
        => /\ hist[r].calls = 0
           /\ ~hist[r].wrote /\ ~hist[r].saveTried
           /\ pc[r] # "idle" => CacheView = hist[r].before
           /\ (/\ pc[r] = "done"
               /\ \/ ~hist[r].before.exists
                  \/ /\ ~Unmarshal(hist[r].before.b).err
                     /\ Unmarshal(hist[r].before.b).cf.Key # KeyOf(req[r].in))
              => ~hist[r].ret.ok

C3_Witness ==
    \E r \in Reqs :
        /\ pc[r] = "done" /\ req[r].mode = "load"
        /\ hist[r].before.exists
        /\ ~Unmarshal(hist[r].before.b).err
        /\ ~Unmarshal(hist[r].before.b).cf.Embeddings.nil
        /\ Unmarshal(hist[r].before.b).cf.Key # KeyOf(req[r].in)
        /\ hist[r].ret.err = "no-match"

\* C4 (SpecCache): in mode off the embedding backend is always invoked, and the
\* cache file is neither read nor written: it is after the call what it was
\* before, whatever the backend returns.
C4_OffBypassesCache ==
    \A r \in Reqs :
        req[r].mode = "off"
        => /\ hist[r].reads = 0
           /\ ~hist[r].wrote /\ ~hist[r].saveTried
           /\ pc[r] # "idle" => CacheView = hist[r].before
           /\ pc[r] = "done" => /\ hist[r].calls = 1
                                /\ hist[r].ret.ok = hist[r].res.ok
                                /\ hist[r].res.ok => hist[r].ret.emb = MapOf(hist[r].res.out)

C4_Witness ==
    \E r \in Reqs :
        /\ pc[r] = "done" /\ req[r].mode = "off"
        /\ hist[r].before.exists /\ ~Unmarshal(hist[r].before.b).err
        /\ Unmarshal(hist[r].before.b).cf.Key = KeyOf(req[r].in)
        /\ hist[r].calls = 1 /\ hist[r].ret.ok

\* C5 (SpecCache): in mode auto, after a miss or a key mismatch the embedding
\* backend is invoked once; when it succeeds a save under the request's key is
\* attempted and the request returns the backend's embeddings, also when the
\* save fails.
C5_AutoMissComputesAndSaves ==
    \A r \in Reqs :
        (IsAuto(req[r].mode) /\ hist[r].load \in {"miss", "null", "mismatch"})
        => /\ pc[r] \notin {"load", "embed"} => hist[r].calls = 1
           /\ (pc[r] \notin {"load", "embed"} /\ hist[r].res.ok) => hist[r].saveTried
           /\ (pc[r] = "done" /\ hist[r].res.ok)
              => /\ hist[r].ret.ok
                 /\ hist[r].ret.emb = MapOf(hist[r].res.out)
                 /\ hist[r].saveOk => CacheView = [exists |-> TRUE, b |-> SavedBy(r)]

C5_Witness ==
    \E r \in Reqs :
        /\ pc[r] = "done" /\ IsAuto(req[r].mode) /\ hist[r].load = "mismatch"
        /\ hist[r].res.ok /\ hist[r].saveTried /\ ~hist[r].saveOk
        /\ hist[r].ret.ok /\ req[r].n = 1

\* C6 (SpecCache): a cache file that cannot be parsed or read is fatal for the
\* request in mode load, and in mode auto the request goes on to the embedding
\* backend.
C6_UnreadableCacheRecomputedInAuto ==
    \A r \in Reqs :
        (pc[r] = "done" /\ hist[r].load = "err")
        => IF req[r].mode = "load" THEN ~hist[r].ret.ok ELSE hist[r].calls = 1

\* The part of C6 the code keeps: an unreadable cache file fails the request
\* in mode load, without a call of the backend.
UnreadableCacheFatalInLoad ==
    \A r \in Reqs :
        (pc[r] = "done" /\ hist[r].load = "err" /\ req[r].mode = "load")
        => (~hist[r].ret.ok /\ hist[r].calls = 0)

\* C7 (SpecCrash): whatever step of the save the process dies at, the cache path
\* holds what it held before the request (the complete earlier entry, or
\* nothing) or the complete entry of the request.
C7_CrashLeavesOldOrNew ==
    pc[1] # "idle"
    => \/ CacheView = hist[1].before
       \/ hist[1].res.ok /\ CacheView = [exists |-> TRUE, b |-> SavedBy(1)]

C7_Witness ==
    /\ pc[1] = "crashed" /\ hist[1].saveTried
    /\ dir[TmpPath] # NoFile
    /\ Len(data[dir[TmpPath]]) > 0
    /\ Len(data[dir[TmpPath]]) < Len(SavedBy(1))
    /\ hist[1].before.exists /\ CacheView = hist[1].before

\* C8 (SpecWriters): with requests saving concurrently, the cache path, when it
\* exists, always holds one complete entry: the one present at start or the one
\* some request saved.
C8_CacheFileAlwaysComplete ==
    CacheView.exists
    => \/ CacheView.b = OldSaved
       \/ \E r \in Reqs : hist[r].res.ok /\ CacheView.b = SavedBy(r)

\* C9 (SpecCache): after a save that succeeded, a load of the same path is a
\* hit whose key, model and embeddings are those of the entry saved, also for
\* an empty embedding set.
C9_SaveThenLoadRoundTrip ==
    \A r \in Reqs :
        (pc[r] = "done" /\ hist[r].saveOk)
        => LET l == loadEmbeddingsFromFile(dir, data, CachePath, FALSE)
           IN  /\ l.ok /\ ~l.err /\ ~l.cfNil
               /\ l.cf.Key = KeyOf(req[r].in)
               /\ l.cf.Model = req[r].in.model
               /\ l.cf.Version = 1
               /\ l.emb = MapOf(hist[r].res.out)
               /\ DOMAIN l.emb.m = ChunkIds(req[r].n)

C9_Witness ==
    \E r \in Reqs :
        /\ pc[r] = "done" /\ hist[r].saveOk /\ req[r].n = 0
        /\ loadEmbeddingsFromFile(dir, data, CachePath, FALSE).ok

\* C10 (SpecKey): two requests that differ in exactly one of document name,
\* content, chunk parameter and model name have different cache keys.
C10_KeyChangesWithEachParameter ==
    kq.st = "two" => kq.k1 # kq.k2

C10_Witness ==
    /\ kq.st = "two"
    /\ kq.a.model # kq.b.model
    /\ Len(kq.b.model) > 1
    /\ kq.k1 # kq.k2

\* What the cache file held when request r began, as an entry.
StoredBefore(r) == Unmarshal(hist[r].before.b)
\* The cache path holds something else than when request r began.
Rewritten(r) == pc[r] # "idle" /\ CacheView # hist[r].before
\* A hit leaves the file alone and attempts no save.
HitLeavesFile(r) ==
    hist[r].load = "hit" => (~hist[r].wrote /\ ~hist[r].saveTried /\ ~Rewritten(r))
\* A failed embedding call leaves the file alone and attempts no save.
FailedEmbedLeavesFile(r) ==
    (hist[r].calls = 1 /\ ~hist[r].res.ok)
    => (pc[r] = "done" /\ ~hist[r].wrote /\ ~hist[r].saveTried /\ ~Rewritten(r))

RemoteFailure(q) ==
    LET x == em.resps[q]
    IN  x.resp.status # "ok" \/ ~x.resp.decodes \/ x.resp.count # x.want
\* The vectors of the body of the q-th response.
VectorsOf(q) == {RespVec(q, k) : k \in 1..em.resps[q].resp.count}

\* C12 (SpecEmbed): Embed is all-or-nothing: when the remote call of any batch
\* fails (no answer, a status other than 200, a body that does not decode, a
\* wrong number of vectors) Embed returns an error and no embedding set, also
\* after batches that succeeded; and when it returns without error the set
\* holds a vector for every passage.
C12_EmbedAllOrNothing ==
    em.pc = "done"
    => /\ (\E q \in 1..Len(em.resps) : RemoteFailure(q))
          => (~em.ret.ok /\ em.ret.emb = NilMap)
       /\ em.ret.ok => (~em.ret.emb.nil /\ DOMAIN em.ret.emb.m = ChunkIds(em.n))

C12_Witness ==
    /\ em.pc = "done" /\ Len(em.resps) = 2
    /\ ~RemoteFailure(1) /\ RemoteFailure(2)
    /\ em.resps[2].resp.status = "non200"
    /\ DOMAIN em.out # {}
    /\ ~em.ret.ok /\ em.ret.emb = NilMap

\* C13 (SpecEmbed): for every batch of either backend, a response whose number
\* of vectors differs from the number of inputs of the batch ends Embed with a
\* count-mismatch error, and no vector of that response is assigned to a
\* passage id.
C13_CountMismatchIsHardError ==
    \A q \in 1..Len(em.resps) :
        LET x == em.resps[q]
        IN  (x.resp.status = "ok" /\ x.resp.decodes /\ x.resp.count # x.want)
            => /\ em.pc = "done" /\ q = Len(em.resps)
               /\ ~em.ret.ok /\ em.ret.err = "count-mismatch"
               /\ \A id \in DOMAIN em.out : em.out[id] \notin VectorsOf(q)

C13_Witness ==
    /\ em.pc = "done" /\ em.kind = "hf" /\ Len(em.resps) = 2
    /\ em.resps[2].resp.status = "ok" /\ em.resps[2].resp.decodes
    /\ em.resps[2].resp.count = em.resps[2].want + 1
    /\ em.ret.err = "count-mismatch"

\* ---- simpleChunkDocument ----
LineBreaksAsSpaces(t) == [k \in 1..Len(t) |-> IF t[k] \in {"\n", "\r"} THEN " " ELSE t[k]]
IsNonEmpty(x) == x # <<>>
\* The non-empty sentence fragments of a text: its pieces between the "."
\* characters, without their outer white space, line breaks read as spaces.
Fragments(t) ==
    LET pieces == Split(LineBreaksAsSpaces(t), ".")
    IN  SelectSeq([k \in 1..Len(pieces) |-> TrimSpace(pieces[k])], IsNonEmpty)
\* The fragments of the passages, passage after passage.
RECURSIVE PassageFragments(_)
PassageFragments(out) ==
    IF out = <<>> THEN <<>> ELSE Fragments(Head(out).Text) \o PassageFragments(Tail(out))
\* The number of sentences of a passage: each ends with the "." restored.
SentenceCount(p) == Cardinality({k \in 1..Len(p.Text) : p.Text[k] = "."})
Blank(t) == \A k \in 1..Len(t) : t[k] \in WhiteSpace
PassageID(docID, i) == docID \o <<"-">> \o FmtInt(i)

\* C14 (SpecChunk): for every text and group size N > 0, the passages, in
\* order and split back into sentences, hold every non-empty sentence fragment
\* of the text exactly once and in the order of the text.
C14_EverySentenceOnceInOrder ==
    ch.st = "done" => PassageFragments(ch.out) = Fragments(ch.text)

C14_Witness ==
    /\ ch.st = "done" /\ ch.n = 2
    /\ Len(Fragments(ch.text)) = 3
    /\ Fragments(ch.text)[1] # Fragments(ch.text)[2]
    /\ Len(ch.text) <= MaxTextLen
    /\ PassageFragments(ch.out) = Fragments(ch.text)

\* C15 (SpecChunk): for every group size N > 0 every passage but the last holds
\* exactly N sentences and the last holds between 1 and N; "Hello world. This
\* is a test. Bye now." with N = 2 gives "Hello world. This is a test." and
\* "Bye now.".
C15_GroupsOfNThenPartial ==
    ch.st = "done"
    => /\ \A i \in 1..Len(ch.out) :
             IF i < Len(ch.out) THEN SentenceCount(ch.out[i]) = ch.n
             ELSE SentenceCount(ch.out[i]) \in 1..ch.n
       /\ (ch.text = ScenarioA /\ ch.n = 2)
          => /\ Len(ch.out) = 2
             /\ ch.out[1].Text = SubSeq(ScenarioA, 1, 28)
             /\ ch.out[2].Text = SubSeq(ScenarioA, 30, 37)

C15_Witness ==
    /\ ch.st = "done" /\ ch.text = ScenarioA /\ ch.n = 2
    /\ Len(ch.out) = 2
    /\ SentenceCount(ch.out[1]) = 2 /\ SentenceCount(ch.out[2]) = 1

\* C16 (SpecChunk): the i-th passage, counting from zero, has the id
\* documentId-i; the ids of one document are pairwise distinct, the final
\* partial group included.
C16_IdsAreOrdinals ==
    ch.st = "done"
    => /\ \A i \in 1..Len(ch.out) : ch.out[i].ID = PassageID(ch.docID, i - 1)
       /\ \A i, j \in 1..Len(ch.out) : i # j => ch.out[i].ID # ch.out[j].ID

C16_Witness ==
    /\ ch.st = "done" /\ ch.n = 2 /\ Len(ch.text) <= MaxTextLen
    /\ Len(ch.out) = 2 /\ SentenceCount(ch.out[2]) = 1
    /\ ch.out[2].ID = <<"d", "o", "c", "-", "1">>

\* C17 (SpecChunk): an empty text, and a text of white space only, gives no
\* passage.
C17_BlankGivesNothing ==
    (ch.st = "done" /\ Blank(ch.text)) => ch.out = <<>>

C17_Witness ==
    /\ ch.st = "done" /\ Len(ch.text) = 2 /\ Blank(ch.text)
    /\ ch.text[1] # ch.text[2]
    /\ ch.out = <<>>

\* C18 (SpecChunk): a text that is not blank and holds no "." gives exactly
\* one passage, with the id documentId-0, that holds the whole text (without
\* its outer white space, line breaks as spaces, the terminator added).
C18_NoTerminatorOnePassage ==
    (/\ ch.st = "done"
     /\ ~Blank(ch.text)
     /\ \A k \in 1..Len(ch.text) : ch.text[k] # ".")
    => /\ Len(ch.out) = 1
       /\ ch.out[1].ID = PassageID(ch.docID, 0)
       /\ ch.out[1].Text = TrimSpace(LineBreaksAsSpaces(ch.text)) \o <<".">>

C18_Witness ==
    /\ ch.st = "done" /\ ch.n = 2
    /\ ch.text = <<"\n", "a", "\r", "b", " ">>
    /\ Len(ch.out) = 1
    /\ ch.out[1].Text = <<"a", " ", "b", ".">>

\* ---- add requests ----
\* The ids, texts and vectors of an add request have one length, position k of
\* each comes from the passage ids[k], and the passages are in their order.
AlignedTriples(call) ==
    /\ Len(call.docs) = Len(call.ids)
    /\ Len(call.embs) = Len(call.ids)
    /\ \A k \in 1..Len(call.ids) :
          /\ call.docs[k] = TextOf(call.ids[k])
          /\ call.embs[k] = VecOf(call.ids[k])
          /\ k > 1 => call.ids[k - 1] < call.ids[k]
\* The metadatas of an add request are as many as its ids, each of the
\* passage at its position.
AlignedMetadatas(call) ==
    /\ Len(call.metas) = Len(call.ids)
    /\ \A k \in 1..Len(call.ids) : call.metas[k].doc_id = call.ids[k]

\* C19 (SpecIndex): every add request sent to the vector store carries ids,
\* texts, vectors and metadatas of equal length, position k of each from the
\* same passage, in passage order.
C19_AddRequestsAligned ==
    \A c \in 1..Len(store) : AlignedTriples(store[c]) /\ AlignedMetadatas(store[c])

\* The part of C19 that holds for uploadHandler: its one add request carries
\* four aligned arrays of all the passages.
UploadHandlerAddsAligned ==
    up.path = "handler"
    => \A c \in 1..Len(store) :
          /\ AlignedTriples(store[c]) /\ AlignedMetadatas(store[c])
          /\ Len(store[c].ids) = up.n

\* The part of C19 that holds for UpsertChunksToChroma: ids, texts and vectors
\* are aligned in every batch.
UpsertAddsAlignedTriples ==
    up.path = "upsert" => \A c \in 1..Len(store) : AlignedTriples(store[c])

\* ---- getOrCreateCollection ----
\* C20 (SpecClient): a call whose lookup succeeds returns the existing id and
\* issues no create; and for calls one after another against a store that keeps
\* its collections and answers every request, at most one create is issued and
\* every call returns the same id.
C20_GetOrCreateIdempotent ==
    /\ cc.found => (~cc.created /\ cc.pc = "done"
                    /\ cc.rets[Len(cc.rets)] = [ok |-> TRUE, id |-> cc.col])
    /\ ~cc.faulted
       => /\ cc.creates <= 1 /\ cc.made <= 1
          /\ \A i \in 1..Len(cc.rets) :
                /\ cc.rets[i].ok
                /\ cc.rets[i].id = cc.col /\ cc.col # NoCol
                /\ cc.rets[i].id = cc.rets[1].id

C20_Witness ==
    /\ cc.pc = "done" /\ cc.calls = MaxCalls /\ ~cc.faulted
    /\ cc.api = {"/v1"}
    /\ cc.creates = 1 /\ cc.made = 1 /\ cc.found
    /\ \A i \in 1..Len(cc.rets) : cc.rets[i] = [ok |-> TRUE, id |-> ColId(1)]

\* The store's answer to the chat request's query holds no passage.
NoMatch == chat.qry = "ok" /\ (chat.docs = <<>> \/ \A k \in DOMAIN chat.docs[1] : chat.docs[1][k] = NilDoc)
\* The prompt whose context block is empty.
EmptyContextPrompt(query) == <<PromptHead, PromptMid, query, PromptTail>>

\* C21 (SpecChat): a chat request whose store query finds no passage does
\* not fail for that: the answer generator is still called, once, with the
\* prompt whose context block is empty, and the response that carries the
\* answer carries an empty list of retrieved passages; only the answer
\* generator's own failure ends such a request with an error.
C21_NoMatchStillAnswered ==
    (NoMatch /\ chat.pc = "done")
    => /\ chat.asked = <<EmptyContextPrompt(chat.query)>>
       /\ chat.ret.context = <<>>
       /\ chat.ret.status = IF chat.gen = "ok" THEN "ok" ELSE "error"
       /\ chat.ret.status = "error" => chat.gen = "failed"
C21_Witness ==
    NoMatch /\ chat.pc = "done" /\ chat.ret.status = "ok" /\ chat.docs = <<<<NilDoc>>>>

\* C27 (SpecChat): in a chat request the answer generator is called at most
\* once, and only after the query embedding and the store query have both
\* succeeded; a request with an empty query, a failed embedding, a missing
\* query vector or a failed store query never calls it; and when the answer
\* generator fails the response carries an error and no answer.
C27_AnswererOnceAfterRetrieval ==
    /\ Len(chat.asked) <= 1
    /\ chat.asked # <<>> => (chat.query # "" /\ chat.emb = "ok" /\ chat.qry = "ok")
    /\ (chat.pc = "done" /\ (chat.query = "" \/ chat.emb \in {"failed", "missing"}
                                             \/ chat.qry = "failed"))
       => (chat.asked = <<>> /\ chat.gen = "none" /\ chat.ret.status = "error")
    /\ chat.gen = "failed" => (chat.ret.status = "error" /\ chat.ret.answer = "")
    /\ chat.ret.answer # "" => chat.gen = "ok"
C27_Witness == chat.pc = "done" /\ chat.gen = "failed" /\ Len(chat.asked) = 1

\* C22 (SpecServe), as stated: once main has the collection handle, no step
\* of an upload or of a chat request, in any interleaving, assigns the shared
\* handle again.
C22_HandleNeverReassigned == [][collection' = collection]_vars

\* The cache file holds a usable entry under the key of the uploaded file.
StoredKeyMatches(in) ==
    CacheHit(loadEmbeddingsFromFile(dir, data, CachePath, FALSE), KeyOf(in))

\* C23 (SpecServe), as stated: indexing reaches the embedding backend only
\* through the cache wrapper, so an upload in mode auto of a file whose key
\* matches the stored cache entry makes no call to the backend.
C23_CachedUploadSkipsBackend ==
    (up.path = "handler" /\ IsAuto(srv.mode) /\ StoredKeyMatches(up.in)) => up.calls = 0

\* C24 (SpecServe), as stated: a failed request is request-scoped: the
\* process goes on running, the answer client stays what main set, an upload
\* that ended with an error leaves the shared collection handle as it found
\* it, and no chat request breaks on a handle an earlier request left behind.
C24_ErrorsRequestScoped ==
    /\ srv.alive
    /\ srv.gemini = "client"
    /\ (up.path = "handler" /\ up.pc = "done" /\ up.ret.status # "ok") => collection = up.col0
    /\ chat.ret.status # "panic"

\* The requests add sent for its k-th call, and the times the store kept
\* the batch of that call.
PostsOf(k) == {i \in DOMAIN ad.posts : ad.posts[i].call = k}
KeptOf(k) == {i \in DOMAIN ad.kept : ad.kept[i] = k}

\* C25 (SpecAdd), as stated: nothing is sent again: the add of a batch is
\* transmitted at most once, its failure is returned without the same payload
\* going out a second time, and the store persists a batch at most once.
C25_BatchSentAtMostOnce ==
    \A k \in 1..ad.call : Cardinality(PostsOf(k)) <= 1 /\ Cardinality(KeptOf(k)) <= 1

\* The store persists some batch twice.
BatchKeptTwice == \E k \in 1..ad.call : Cardinality(KeptOf(k)) >= 2
\* A chat request meets the nil handle a failed get-or-create left behind.
ChatMeetsNilHandle == chat.pc = "done" /\ chat.ret.status = "panic"
\* The process has ended on a failed count.
ProcessEnded == ~srv.alive

\* ---- the requests of one Embed call ----
\* The passages sent so far, request after request.
RECURSIVE SentParts(_)
SentParts(resps) == IF resps = <<>> THEN <<>> ELSE Head(resps).part \o SentParts(Tail(resps))
Ceil(n, b) == (n + b - 1) \div b
\* Settings of EMBEDDING_BATCH_SIZE that are no positive number.
FallbackEnvs == {v \in BatchEnvs : v = <<>> \/ Atoi(v).err \/ Atoi(v).n <= 0}

\* What holds of the requests of an Embed call at every moment.
EmbedRequestsWithinBudget ==
    em.pc # "idle"
    => /\ em.batch > 0
       /\ em.env \in FallbackEnvs => em.batch = DefaultBatch
       /\ em.env \notin FallbackEnvs => em.batch = Atoi(em.env).n
       /\ Len(em.resps) <= Ceil(em.n, em.batch)
       /\ em.pc = "batch" => Len(em.resps) < Ceil(em.n, em.batch)
       /\ \A q \in 1..Len(em.resps) :
             Len(em.resps[q].part) >= 1 /\ Len(em.resps[q].part) <= em.batch
       /\ Len(SentParts(em.resps)) <= em.n
       /\ SentParts(em.resps) = Range(0, Len(SentParts(em.resps)))
       /\ em.n = 0 => em.resps = <<>>
       /\ em.ret.ok => /\ SentParts(em.resps) = Range(0, em.n)
                       /\ DOMAIN em.ret.emb.m = ChunkIds(em.n)

\* C26 (SpecEmbedFair): for every number n of passages and every setting of
\* EMBEDDING_BATCH_SIZE (unset, not a number, zero and negative give 64),
\* Embed ends, after at most ceil(n/b) requests sent one after another; each
\* request carries between 1 and b passages, the requests taken together
\* carry the passages in passage order, each at most once and on success each
\* exactly once; no request is sent for n = 0; and on success the keys of the
\* result are the passage ids.
C26_EmbedEndsWithinRequestBudget == []EmbedRequestsWithinBudget /\ <>(em.pc = "done")
C26_Witness ==
    /\ em.pc = "done" /\ em.ret.ok /\ em.env = <<"2">> /\ em.n = 3
    /\ Len(em.resps) = 2 /\ em.resps[2].part = <<2>>
====
